---- MODULE Spec2Model ----
(***************************************************************************)
(* A model of feeluown/app.py: the App object (the application shell) of   *)
(* the FeelUOwn player.  The state is what App's handlers read and write   *)
(* on the objects they own or drive: the construction sequence of          *)
(* App.__init__, the signal wiring of bind_signal, the widgets the player  *)
(* handlers update, the message line that create_action writes to, the     *)
(* player calls of closeEvent, the image pipeline of pixmap_from_url and   *)
(* the file walk of scan_fuo_files.                                        *)
(*                                                                         *)
(* Errors raised by collaborators are errors of class Exception, the class *)
(* named by the two handlers of the file (lines 163 and 220).              *)
(***************************************************************************)
EXTENDS Integers, Sequences, FiniteSets, TLC

VARIABLES
    pc,               \* position in App.__init__ (lines 74-83), then "running"
    now,              \* the event loop's clock, loop.time()
    macTheme,         \* what use_mac_theme() answers in this process
    pluginsScanned,   \* plugins_manager.scan() has returned
    timer,            \* the call_later handle: "none", "pending", "fired"
    scheduledAt,      \* the time call_later was called
    timerWhen,        \* the time the handle is due
    versionTasks,     \* how many version-check tasks were started
    tipShown,         \* tips_manager.show_random_tip() was called
    connected,        \* bind_signal connected the handlers
    initializedEmits, \* how many times the initialized signal was emitted
    styleSheet,       \* the application's style sheet
    ppIcon,           \* the icon of pc_panel.pp_btn
    lastState,        \* the state of the most recent state_changed event
    panelPosition,    \* last value given to pc_panel.on_position_changed
    sliderPosition,   \* last value given to progress_slider.update_state
    panelDuration,    \* last value given to pc_panel.on_duration_changed
    sliderDuration,   \* last value given to progress_slider.set_duration
    positionMs,       \* the argument of the most recent position_changed event
    durationMs,       \* the argument of the most recent duration_changed event
    scope,            \* the create_action scope: "idle", "open", "done", "raised"
    label,            \* the label s of the scope
    firstMsg,         \* first message the scope showed
    shownMsg,         \* the message the magic box shows (the last one shown)
    doneShown,        \* how many "...done" messages the scope showed
    errorShown,       \* how many "...error" messages the scope showed
    failedCalled,     \* the block called Action.failed()
    blockError,       \* the error the block raised
    propagated,       \* the error that left the with-statement
    closed,           \* closeEvent was handled
    stopRaises,       \* player.stop() raises when called
    shutdownRaises,   \* player.shutdown() raises when called
    closeCalls,       \* the calls closeEvent made, in order
    closeEscaped,     \* an exception left closeEvent
    width,            \* the window's width, self.width()
    request,          \* the arguments of the last request.get: <<url, param>>
    response,         \* what that request.get returned: None or the content
    pixmap,           \* the QPixmap made from the content
    pixCallback,      \* the callback argument of the last pixmap_from_url
    pixTrace,         \* the callback calls and the return of that call, in order
    pixResult,        \* what the last pixmap_from_url returned
    fuoFiles,         \* config.FUO_FILES
    fs,               \* the file system: path -> kind
    scanDone,         \* scan_fuo_files has returned
    fList,            \* f_list of the last scan_fuo_files
    recognized,       \* the paths that passed the extension test
    names             \* the names derived from them

vars == <<pc, now, macTheme, pluginsScanned, timer, scheduledAt, timerWhen,
          versionTasks,
          tipShown, connected, initializedEmits, styleSheet, ppIcon, lastState,
          panelPosition, sliderPosition, panelDuration, sliderDuration,
          positionMs, durationMs,
          scope, label, firstMsg, shownMsg, doneShown, errorShown, failedCalled,
          blockError, propagated, closed, stopRaises, shutdownRaises,
          closeCalls, closeEscaped, width, request, response, pixmap,
          pixCallback, pixTrace, pixResult, fuoFiles, fs, scanDone, fList,
          recognized, names>>

shellVars == <<pc, now, macTheme, pluginsScanned, timer, scheduledAt, timerWhen,
               versionTasks, tipShown, connected, initializedEmits, styleSheet>>
playerVars == <<ppIcon, lastState, panelPosition, sliderPosition,
                panelDuration, sliderDuration, positionMs, durationMs>>
actionVars == <<scope, label, firstMsg, shownMsg, doneShown, errorShown,
                failedCalled, blockError, propagated>>
closeVars == <<closed, stopRaises, shutdownRaises, closeCalls, closeEscaped>>
pixVars == <<width, request, response, pixmap, pixCallback, pixTrace,
             pixResult>>
scanVars == <<fuoFiles, fs, scanDone, fList, recognized, names>>

(***************************************************************************)
(* Values                                                                  *)
(***************************************************************************)
None == "None"

\* fuocore.core.player.State
PlayerState == {"stopped", "paused", "playing"}

\* QStyle standard icons set by _on_player_status_changed; "theme" stands for
\* whatever icon the Ui gave the button before any event.
SP_MediaPause == "SP_MediaPause"
SP_MediaPlay == "SP_MediaPlay"
InitialIcons == {SP_MediaPlay, SP_MediaPause, "theme"}

\* Before the first event the widgets and the event arguments are -1.

\* The delay given to call_later, in the loop's time units.
CheckDelay == 8

\* Bounds of the model.
MaxStartupTime == 1
MaxTime == 9
MaxMs == 5

MsValues == {0, MaxMs}
Labels == {"Login", "Sync"}
Errors == {"IOError", "ValueError"}
\* set_progress arguments, as fractions <<numerator, denominator>>
ProgressValues == {<<1, 3>>, <<1, 2>>}

(***************************************************************************)
(* App.__init__, lines 57-83.  The objects of lines 59-72 exist; the steps *)
(* are _init_managers (scan, call_later, show_random_tip), bind_signal and *)
(* initialize.                                                             *)
(***************************************************************************)
ShellInit ==
    /\ pc = "scan"
    /\ now = 0
    /\ macTheme \in BOOLEAN
    /\ pluginsScanned = FALSE
    /\ timer = "none"
    /\ scheduledAt = 0
    /\ timerWhen = 0
    /\ versionTasks = 0
    /\ tipShown = FALSE
    /\ connected = FALSE
    /\ initializedEmits = 0
    /\ styleSheet = None

PlayerInit ==
    /\ ppIcon \in InitialIcons
    /\ lastState = None
    /\ panelPosition = -1
    /\ sliderPosition = -1
    /\ panelDuration = -1
    /\ sliderDuration = -1
    /\ positionMs = -1
    /\ durationMs = -1

ActionInit ==
    /\ scope = "idle"
    /\ label = None
    /\ firstMsg = None
    /\ shownMsg = None
    /\ doneShown = 0
    /\ errorShown = 0
    /\ failedCalled = FALSE
    /\ blockError = None
    /\ propagated = None

CloseInit ==
    /\ closed = FALSE
    /\ stopRaises = FALSE
    /\ shutdownRaises = FALSE
    /\ closeCalls = <<>>
    /\ closeEscaped = FALSE

\* _init_managers, line 142: the plugin scan, synchronous
init_managers_scan ==
    /\ pc = "scan"
    /\ pluginsScanned' = TRUE
    /\ pc' = "call_later"
    /\ UNCHANGED <<now, macTheme, timer, scheduledAt, timerWhen, versionTasks, tipShown,
                   connected, initializedEmits, styleSheet>>
    /\ UNCHANGED <<playerVars, actionVars, closeVars, pixVars, scanVars>>

\* _init_managers, lines 143-145: the version check is due CheckDelay from now
init_managers_call_later ==
    /\ pc = "call_later"
    /\ timer' = "pending"
    /\ scheduledAt' = now
    /\ timerWhen' = now + CheckDelay
    /\ pc' = "show_random_tip"
    /\ UNCHANGED <<now, macTheme, pluginsScanned, versionTasks, tipShown,
                   connected, initializedEmits, styleSheet>>
    /\ UNCHANGED <<playerVars, actionVars, closeVars, pixVars, scanVars>>

\* _init_managers, line 146
init_managers_show_random_tip ==
    /\ pc = "show_random_tip"
    /\ tipShown' = TRUE
    /\ pc' = "bind_signal"
    /\ UNCHANGED <<now, macTheme, pluginsScanned, timer, scheduledAt, timerWhen,
                   versionTasks, connected, initializedEmits, styleSheet>>
    /\ UNCHANGED <<playerVars, actionVars, closeVars, pixVars, scanVars>>

\* bind_signal, lines 121-136, called at line 82
bind_signal ==
    /\ pc = "bind_signal"
    /\ connected' = TRUE
    /\ pc' = "initialize"
    /\ UNCHANGED <<now, macTheme, pluginsScanned, timer, scheduledAt, timerWhen,
                   versionTasks, tipShown, initializedEmits, styleSheet>>
    /\ UNCHANGED <<playerVars, actionVars, closeVars, pixVars, scanVars>>

\* load_qss, lines 91-99: the style sheet is set only under the mac theme
load_qss(sheet) == IF ~macTheme THEN sheet ELSE "mac.qss"

\* initialize with lines 82 and 83 exchanged: it runs before bind_signal
initialize_before_bind ==
    /\ pc = "bind_signal"
    /\ initializedEmits' = initializedEmits + 1
    /\ styleSheet' = load_qss(styleSheet)
    /\ pc' = "running"
    /\ UNCHANGED <<now, macTheme, pluginsScanned, timer, scheduledAt, timerWhen,
                   versionTasks, tipShown, connected>>
    /\ UNCHANGED <<playerVars, actionVars, closeVars, pixVars, scanVars>>

\* initialize, lines 85-89, called at line 83
initialize ==
    /\ pc = "initialize"
    /\ initializedEmits' = initializedEmits + 1
    /\ styleSheet' = load_qss(styleSheet)
    /\ pc' = "running"
    /\ UNCHANGED <<now, macTheme, pluginsScanned, timer, scheduledAt, timerWhen,
                   versionTasks, tipShown, connected>>
    /\ UNCHANGED <<playerVars, actionVars, closeVars, pixVars, scanVars>>

\* The clock of the event loop.  It runs during construction too.
Tick ==
    /\ now < MaxTime
    /\ timer = "none" => now < MaxStartupTime
    /\ now' = now + 1
    /\ UNCHANGED <<pc, macTheme, pluginsScanned, timer, scheduledAt, timerWhen,
                   versionTasks, tipShown, connected, initializedEmits,
                   styleSheet>>
    /\ UNCHANGED <<playerVars, actionVars, closeVars, pixVars, scanVars>>

\* run_version_check with the handle run as soon as the loop runs
run_version_check_at_once ==
    /\ pc = "running"
    /\ timer = "pending"
    /\ timer' = "fired"
    /\ versionTasks' = versionTasks + 1
    /\ UNCHANGED <<pc, now, macTheme, pluginsScanned, scheduledAt, timerWhen,
                   tipShown, connected, initializedEmits, styleSheet>>
    /\ UNCHANGED <<playerVars, actionVars, closeVars, pixVars, scanVars>>

\* The loop runs the handle of line 144 when it is due: partial(asyncio.Task,
\* check_release()) starts the task.  The loop runs callbacks only once the
\* constructor has returned.
run_version_check ==
    /\ pc = "running"
    /\ timer = "pending"
    /\ now >= timerWhen
    /\ timer' = "fired"
    /\ versionTasks' = versionTasks + 1
    /\ UNCHANGED <<pc, now, macTheme, pluginsScanned, scheduledAt, timerWhen,
                   tipShown,
                   connected, initializedEmits, styleSheet>>
    /\ UNCHANGED <<playerVars, actionVars, closeVars, pixVars, scanVars>>

(***************************************************************************)
(* The player's handlers, lines 169-184.  A handler runs when its signal   *)
(* is emitted after bind_signal connected it.                              *)
(***************************************************************************)
on_player_position_changed(ms) ==
    /\ connected /\ ~closed
    /\ panelPosition' = ms * 1000
    /\ sliderPosition' = ms * 1000
    /\ positionMs' = ms
    /\ UNCHANGED <<ppIcon, lastState, panelDuration, sliderDuration, durationMs>>
    /\ UNCHANGED <<shellVars, actionVars, closeVars, pixVars, scanVars>>

\* the duration handler with the slider given the unconverted value
on_player_duration_changed_raw(ms) ==
    /\ connected /\ ~closed
    /\ panelDuration' = ms * 1000
    /\ sliderDuration' = ms
    /\ durationMs' = ms
    /\ UNCHANGED <<ppIcon, lastState, panelPosition, sliderPosition, positionMs>>
    /\ UNCHANGED <<shellVars, actionVars, closeVars, pixVars, scanVars>>

on_player_duration_changed(ms) ==
    /\ connected /\ ~closed
    /\ panelDuration' = ms * 1000
    /\ sliderDuration' = ms * 1000
    /\ durationMs' = ms
    /\ UNCHANGED <<ppIcon, lastState, panelPosition, sliderPosition, positionMs>>
    /\ UNCHANGED <<shellVars, actionVars, closeVars, pixVars, scanVars>>

\* the status handler without the theme test of lines 179-180
on_player_status_changed_any_theme(state) ==
    /\ connected /\ ~closed
    /\ lastState' = state
    /\ ppIcon' = IF state = "playing" THEN SP_MediaPause ELSE SP_MediaPlay
    /\ UNCHANGED <<panelPosition, sliderPosition, panelDuration,
                   sliderDuration, positionMs, durationMs>>
    /\ UNCHANGED <<shellVars, actionVars, closeVars, pixVars, scanVars>>

on_player_status_changed(state) ==
    /\ connected /\ ~closed
    /\ lastState' = state
    /\ ppIcon' = IF macTheme THEN ppIcon
                 ELSE IF state = "playing" THEN SP_MediaPause
                 ELSE SP_MediaPlay
    /\ UNCHANGED <<panelPosition, sliderPosition, panelDuration,
                   sliderDuration, positionMs, durationMs>>
    /\ UNCHANGED <<shellVars, actionVars, closeVars, pixVars, scanVars>>

\* The four network handlers, lines 186-196: each is `pass`.
on_network_slow ==
    /\ connected /\ ~closed
    /\ UNCHANGED vars

on_network_connected ==
    /\ connected /\ ~closed
    /\ UNCHANGED vars

on_network_server_error ==
    /\ connected /\ ~closed
    /\ UNCHANGED vars

on_network_disconnected ==
    /\ connected /\ ~closed
    /\ UNCHANGED vars

(***************************************************************************)
(* create_action, lines 148-167: a context manager.  Entering shows the    *)
(* start message and yields the Action handle; the block may call          *)
(* set_progress and failed; leaving goes through except/else.              *)
(***************************************************************************)
\* int(x) of a fraction n/d: truncation towards zero
IntOf(n, d) == IF n >= 0 THEN n \div d ELSE -((-n) \div d)

StartMsg(s) == s \o "..."
ProgressMsg(s, value) ==
    s \o "..." \o ToString(IntOf(value[1] * 100, value[2])) \o "%"
FailedMsg(s) == s \o "...failed"
ErrorMsg(s) == s \o "...error"
DoneMsg(s) == s \o "...done"

\* ui.magicbox.show_msg
show_msg(msg) ==
    /\ shownMsg' = msg
    /\ firstMsg' = IF firstMsg = None THEN msg ELSE firstMsg

\* lines 150-162: up to the yield
create_action_enter(s) ==
    /\ ~closed
    /\ scope # "open"
    /\ scope' = "open"
    /\ label' = s
    /\ shownMsg' = StartMsg(s)
    /\ firstMsg' = StartMsg(s)
    /\ doneShown' = 0
    /\ errorShown' = 0
    /\ failedCalled' = FALSE
    /\ blockError' = None
    /\ propagated' = None
    /\ UNCHANGED <<shellVars, playerVars, closeVars, pixVars, scanVars>>

\* Action.set_progress, lines 153-155
set_progress(value) ==
    /\ ~closed
    /\ scope = "open"
    /\ show_msg(ProgressMsg(label, value))
    /\ UNCHANGED <<scope, label, doneShown, errorShown, failedCalled,
                   blockError, propagated>>
    /\ UNCHANGED <<shellVars, playerVars, closeVars, pixVars, scanVars>>

\* failed() that also ends the scope as an error would
failed_ends_scope ==
    /\ ~closed
    /\ scope = "open"
    /\ show_msg(FailedMsg(label))
    /\ failedCalled' = TRUE
    /\ scope' = "raised"
    /\ UNCHANGED <<label, doneShown, errorShown, blockError, propagated>>
    /\ UNCHANGED <<shellVars, playerVars, closeVars, pixVars, scanVars>>

\* Action.failed, lines 157-158
failed ==
    /\ ~closed
    /\ scope = "open"
    /\ show_msg(FailedMsg(label))
    /\ failedCalled' = TRUE
    /\ UNCHANGED <<scope, label, doneShown, errorShown, blockError, propagated>>
    /\ UNCHANGED <<shellVars, playerVars, closeVars, pixVars, scanVars>>

\* the exit with `finally` in place of `else`: done is shown after error too
create_action_exit_finally(raised) ==
    /\ ~closed
    /\ scope = "open"
    /\ blockError' = raised
    /\ show_msg(DoneMsg(label))
    /\ doneShown' = doneShown + 1
    /\ IF raised # None
       THEN /\ errorShown' = errorShown + 1
            /\ propagated' = raised
            /\ scope' = "raised"
       ELSE /\ errorShown' = errorShown
            /\ propagated' = None
            /\ scope' = "done"
    /\ UNCHANGED <<label, failedCalled>>
    /\ UNCHANGED <<shellVars, playerVars, closeVars, pixVars, scanVars>>

\* lines 161-167: the block ends, normally (raised = None) or by raising
create_action_exit(raised) ==
    /\ ~closed
    /\ scope = "open"
    /\ blockError' = raised
    /\ IF raised # None
       THEN /\ show_msg(ErrorMsg(label))
            /\ errorShown' = errorShown + 1
            /\ doneShown' = doneShown
            /\ propagated' = raised
            /\ scope' = "raised"
       ELSE /\ show_msg(DoneMsg(label))
            /\ doneShown' = doneShown + 1
            /\ errorShown' = errorShown
            /\ propagated' = None
            /\ scope' = "done"
    /\ UNCHANGED <<label, failedCalled>>
    /\ UNCHANGED <<shellVars, playerVars, closeVars, pixVars, scanVars>>

(***************************************************************************)
(* closeEvent, lines 216-222                                               *)
(***************************************************************************)
\* lines 218-219: the calls made inside the try block
TryCalls(sr, shr) == IF sr THEN <<"stop">> ELSE <<"stop", "shutdown">>

\* closeEvent without the try statement: the error leaves the handler
closeEvent_unguarded(sr, shr) ==
    /\ pc = "running"
    /\ ~closed
    /\ closed' = TRUE
    /\ stopRaises' = sr
    /\ shutdownRaises' = shr
    /\ closeCalls' = IF sr \/ shr THEN TryCalls(sr, shr)
                     ELSE TryCalls(sr, shr) \o <<"quit">>
    /\ closeEscaped' = (sr \/ shr)
    /\ UNCHANGED <<shellVars, playerVars, actionVars, pixVars, scanVars>>

closeEvent(sr, shr) ==
    /\ pc = "running"
    /\ ~closed
    /\ closed' = TRUE
    /\ stopRaises' = sr
    /\ shutdownRaises' = shr
    /\ closeCalls' = TryCalls(sr, shr) \o <<"quit">>
    /\ closeEscaped' = FALSE
    /\ UNCHANGED <<shellVars, playerVars, actionVars, pixVars, scanVars>>


(***************************************************************************)
(* pixmap_from_url, lines 201-214                                          *)
(***************************************************************************)
Widths == {800, 1000, 1280}
Urls == {"http://img/1", "http://img/2"}
Callbacks == {None, "set_cover"}
\* What a response carries: nothing, a page, or image data
Contents == {"", "<html>", "PNG:a", "PNG:b"}

NullPixmap == "QPixmap()"

\* QImage.loadFromData and QPixmap(img), lines 207-209: the pixmap of data in
\* a known image format; anything else leaves the image, and the pixmap, null
QPixmapOf(content) ==
    IF Len(content) > 4 /\ SubSeq(content, 1, 4) = "PNG:"
    THEN "QPixmap(" \o SubSeq(content, 5, Len(content)) \o ")"
    ELSE NullPixmap

isNull(pm) == pm = NullPixmap

\* line 203: '{0}y{0}'.format(self.width())
Param(w) == ToString(w) \o "y" \o ToString(w)

\* resize (line 78) and the window's later resizes, seen by resizeEvent
resizeEvent(w) ==
    /\ ~closed
    /\ width' = w
    /\ UNCHANGED <<request, response, pixmap, pixCallback, pixTrace, pixResult>>
    /\ UNCHANGED <<shellVars, playerVars, actionVars, closeVars, scanVars>>

\* pixmap_from_url without the isNull test of lines 210-211
pixmap_from_url_unchecked(url, callback, res) ==
    /\ ~closed
    /\ request' = <<url, Param(width)>>
    /\ response' = res
    /\ pixCallback' = callback
    /\ IF res = None
       THEN /\ pixmap' = None
            /\ pixTrace' = <<<<"return", None>>>>
            /\ pixResult' = None
       ELSE /\ pixmap' = QPixmapOf(res)
            /\ pixTrace' =
                 (IF callback # None
                  THEN <<<<"callback", QPixmapOf(res)>>>> ELSE <<>>)
                 \o <<<<"return", QPixmapOf(res)>>>>
            /\ pixResult' = QPixmapOf(res)
    /\ UNCHANGED width
    /\ UNCHANGED <<shellVars, playerVars, actionVars, closeVars, scanVars>>

\* res is what request.get returns: None, or a response with that content
pixmap_from_url(url, callback, res) ==
    /\ ~closed
    /\ request' = <<url, Param(width)>>
    /\ response' = res
    /\ pixCallback' = callback
    /\ IF res = None
       THEN /\ pixmap' = None
            /\ pixTrace' = <<<<"return", None>>>>
            /\ pixResult' = None
       ELSE /\ pixmap' = QPixmapOf(res)
            /\ IF isNull(QPixmapOf(res))
               THEN /\ pixTrace' = <<<<"return", None>>>>
                    /\ pixResult' = None
               ELSE /\ pixTrace' =
                         (IF callback # None
                          THEN <<<<"callback", QPixmapOf(res)>>>> ELSE <<>>)
                         \o <<<<"return", QPixmapOf(res)>>>>
                    /\ pixResult' = QPixmapOf(res)
    /\ UNCHANGED width
    /\ UNCHANGED <<shellVars, playerVars, actionVars, closeVars, scanVars>>

PixIdle ==
    /\ width = 1000
    /\ request = <<>>
    /\ response = None
    /\ pixmap = None
    /\ pixCallback = None
    /\ pixTrace = <<>>
    /\ pixResult = None

(***************************************************************************)
(* scan_fuo_files, lines 101-119.  Paths are strings; the file system maps *)
(* each path it knows to what is there.                                    *)
(***************************************************************************)
MaxPaths == 3

AllPaths == {"/a/b.fuo", "/notes.txt", "/dir", "/dir/c.fuo", "/dir/d.txt",
             "/dir/sub", "/dir/sub/e.fuo"}
EntryNames == {"c.fuo", "d.txt", "sub", "e.fuo", "b.fuo", "notes.txt"}
\* The paths config.FUO_FILES may list
Configurable == {"/a/b.fuo", "/missing", "/dir", "/dir/sub", "/notes.txt"}

\* File systems: a path holds a regular file, a directory, something else
\* (a socket, a device) or nothing; entries exist only inside directories.
Layouts ==
    {f \in [AllPaths -> {"missing", "file", "dir", "special"}] :
        /\ f["/a/b.fuo"] \in {"missing", "file", "special"}
        /\ f["/notes.txt"] = "file"
        /\ f["/dir"] \in {"missing", "file", "dir"}
        /\ f["/dir/c.fuo"] \in {"missing", "file", "dir"}
        /\ f["/dir/d.txt"] \in {"missing", "file"}
        /\ f["/dir/sub"] \in {"missing", "dir"}
        /\ f["/dir/sub/e.fuo"] \in {"missing", "file"}
        /\ f["/dir"] # "dir" =>
              /\ f["/dir/c.fuo"] = "missing"
              /\ f["/dir/d.txt"] = "missing"
              /\ f["/dir/sub"] = "missing"
        /\ f["/dir/sub"] # "dir" => f["/dir/sub/e.fuo"] = "missing"}

ConfigLists == UNION {[1..n -> Configurable] : n \in 0..MaxPaths}

\* os.path.exists, os.path.isdir, os.path.isfile
exists(path) == path \in DOMAIN fs /\ fs[path] # "missing"
isdir(path) == path \in DOMAIN fs /\ fs[path] = "dir"
isfile(path) == path \in DOMAIN fs /\ fs[path] = "file"

\* the index of the last c in s, 0 when there is none
LastIndex(s, c) ==
    LET I == {i \in 1..Len(s) : SubSeq(s, i, i) = c}
    IN  IF I = {} THEN 0 ELSE CHOOSE i \in I : \A j \in I : j <= i

\* os.path.join(a, b)
join(a, b) ==
    IF Len(b) > 0 /\ SubSeq(b, 1, 1) = "/" THEN b
    ELSE IF a = "" \/ SubSeq(a, Len(a), Len(a)) = "/" THEN a \o b
    ELSE a \o "/" \o b

\* os.listdir(path): the names of the entries of the directory
listdir(path) == {n \in EntryNames : exists(join(path, n))}

\* os.path.basename(path)
basename(path) == SubSeq(path, LastIndex(path, "/") + 1, Len(path))

\* str.endswith
endswith(s, suffix) ==
    /\ Len(s) >= Len(suffix)
    /\ SubSeq(s, Len(s) - Len(suffix) + 1, Len(s)) = suffix

\* s.rsplit('.', 1)[0]
rsplit_head(s) ==
    IF LastIndex(s, ".") = 0 THEN s ELSE SubSeq(s, 1, LastIndex(s, ".") - 1)

RECURSIVE SeqOf(_)
\* the elements of a set in the order the directory yields them
SeqOf(S) ==
    IF S = {} THEN <<>>
    ELSE LET x == CHOOSE x \in S : TRUE IN <<x>> \o SeqOf(S \ {x})

RECURSIVE JoinAll(_, _)
JoinAll(path, fnames) ==
    IF fnames = <<>> THEN <<>>
    ELSE <<join(path, Head(fnames))>> \o JoinAll(path, Tail(fnames))

\* Expand without the isfile test of line 110
Expand_every_entry(filepath) ==
    IF ~exists(filepath) THEN <<>>
    ELSE IF isdir(filepath)
         THEN JoinAll(filepath, SeqOf(listdir(filepath)))
         ELSE <<filepath>>

\* lines 105-113: what one configured path appends to f_list
Expand(filepath) ==
    IF ~exists(filepath) THEN <<>>
    ELSE IF isdir(filepath)
         THEN SelectSeq(JoinAll(filepath, SeqOf(listdir(filepath))), isfile)
         ELSE <<filepath>>

RECURSIVE Collect(_)
\* lines 103-113: the first loop
Collect(paths) ==
    IF paths = <<>> THEN <<>>
    ELSE Expand(Head(paths)) \o Collect(Tail(paths))

\* lines 115-119: the second loop, over f_list
scan_fuo_files ==
    LET f_list == Collect(fuoFiles)
        kept == {i \in 1..Len(f_list) :
                    endswith(basename(f_list[i]), ".fuo")}
    IN  /\ ~closed
        /\ fList' = f_list
        /\ recognized' = {f_list[i] : i \in kept}
        /\ names' = {rsplit_head(basename(f_list[i])) : i \in kept}
        /\ scanDone' = TRUE
        /\ UNCHANGED <<fuoFiles, fs>>
        /\ UNCHANGED <<shellVars, playerVars, actionVars, closeVars, pixVars>>

ScanIdle ==
    /\ scanDone = FALSE
    /\ fList = <<>>
    /\ recognized = {}
    /\ names = {}

NoFiles ==
    /\ fuoFiles = <<>>
    /\ fs = [path \in AllPaths |-> "missing"]

(***************************************************************************)
(* The shell: construction, then the events of the running application.    *)
(***************************************************************************)
Init ==
    /\ ShellInit
    /\ PlayerInit
    /\ ActionInit
    /\ CloseInit
    /\ PixIdle
    /\ ScanIdle
    /\ NoFiles

Next ==
    \/ init_managers_scan
    \/ init_managers_call_later
    \/ init_managers_show_random_tip
    \/ bind_signal
    \/ initialize
    \/ Tick
    \/ run_version_check
    \/ \E ms \in MsValues : on_player_position_changed(ms)
    \/ \E ms \in MsValues : on_player_duration_changed(ms)
    \/ \E state \in PlayerState : on_player_status_changed(state)
    \/ on_network_slow
    \/ on_network_connected
    \/ on_network_server_error
    \/ on_network_disconnected
    \/ \E s \in Labels : create_action_enter(s)
    \/ \E value \in ProgressValues : set_progress(value)
    \/ failed
    \/ \E raised \in Errors \cup {None} : create_action_exit(raised)
    \/ \E sr \in BOOLEAN, shr \in BOOLEAN : closeEvent(sr, shr)

Spec == Init /\ [][Next]_vars

(***************************************************************************)
(* The running application: the state the constructor leaves.              *)
(***************************************************************************)
Running ==
    /\ pc = "running"
    /\ now = 0
    /\ macTheme = FALSE
    /\ pluginsScanned = TRUE
    /\ timer = "pending"
    /\ scheduledAt = 0
    /\ timerWhen = CheckDelay
    /\ versionTasks = 0
    /\ tipShown = TRUE
    /\ connected = TRUE
    /\ initializedEmits = 1
    /\ styleSheet = None
    /\ ppIcon = SP_MediaPlay
    /\ lastState = None
    /\ panelPosition = -1
    /\ sliderPosition = -1
    /\ panelDuration = -1
    /\ sliderDuration = -1
    /\ positionMs = -1
    /\ durationMs = -1
    /\ ActionInit
    /\ CloseInit

\* pixmap_from_url in the running application
PixInit ==
    /\ Running
    /\ PixIdle
    /\ ScanIdle
    /\ NoFiles

PixNext ==
    \/ \E w \in Widths : resizeEvent(w)
    \/ \E url \in Urls, callback \in Callbacks, res \in Contents \cup {None} :
          pixmap_from_url(url, callback, res)

SpecPixmap == PixInit /\ [][PixNext]_vars

\* scan_fuo_files in the running application, over every configuration and
\* file system of the bounds
ScanInit ==
    /\ Running
    /\ PixIdle
    /\ ScanIdle
    /\ fuoFiles \in ConfigLists
    /\ fs \in Layouts

ScanNext == scan_fuo_files

SpecScan == ScanInit /\ [][ScanNext]_vars

(***************************************************************************)
(* Properties of the shell                                                 *)
(***************************************************************************)
Count(seq, x) == Cardinality({i \in 1..Len(seq) : seq[i] = x})

\* C1: handling a window close calls player.stop() and then
\* player.shutdown(), whichever of the two raises; shutdown() is called even
\* when stop() raised.
C1_StopThenShutdown ==
    closed => /\ Len(closeCalls) >= 2
              /\ closeCalls[1] = "stop"
              /\ closeCalls[2] = "shutdown"

\* C2: when a window close is handled, QApplication.quit() is called exactly
\* once, after the attempt to stop the player, whether or not stop() or
\* shutdown() raised, and no error of the teardown leaves closeEvent.
C2_QuitOnceAfterTeardown ==
    closed => /\ Count(closeCalls, "quit") = 1
              /\ closeCalls[Len(closeCalls)] = "quit"
              /\ closeCalls[1] = "stop"
              /\ Count(closeCalls, "stop") = 1
              /\ ~closeEscaped

C2_Witness ==
    closed /\ ~stopRaises /\ shutdownRaises
           /\ closeCalls = <<"stop", "shutdown", "quit">>

\* C3: create_action(s) first shows "s..."; a block that completes ends with
\* "s...done" shown and no "s...error"; a block that raises ends with
\* "s...error" shown, no "s...done", and the same error leaves the scope;
\* exactly one of done and error is shown per use.
C3_ScopeMessages ==
    /\ scope # "idle" => firstMsg = label \o "..."
    /\ scope = "open" => doneShown = 0 /\ errorShown = 0
    /\ scope = "done" => /\ shownMsg = label \o "...done"
                         /\ doneShown = 1 /\ errorShown = 0
                         /\ blockError = None /\ propagated = None
    /\ scope = "raised" => /\ shownMsg = label \o "...error"
                           /\ doneShown = 0 /\ errorShown = 1
                           /\ blockError \in Errors
                           /\ propagated = blockError

C3_Witness ==
    /\ scope = "raised" /\ label = "Sync" /\ shownMsg = "Sync...error"
    /\ firstMsg = "Sync..." /\ propagated = "ValueError"

\* C6: a position-changed event with argument ms gives ms*1000 to both the
\* control panel and the progress slider, and a duration-changed event gives
\* ms*1000 to both the control panel and the slider's duration; ms = 5 gives
\* 5000.
C6_TimesThousand ==
    /\ positionMs >= 0 => /\ panelPosition = positionMs * 1000
                          /\ sliderPosition = positionMs * 1000
    /\ durationMs >= 0 => /\ panelDuration = durationMs * 1000
                          /\ sliderDuration = durationMs * 1000
    /\ positionMs = 5 => panelPosition = 5000 /\ sliderPosition = 5000
    /\ durationMs = 5 => panelDuration = 5000 /\ sliderDuration = 5000

C6_Witness ==
    /\ positionMs = 5 /\ panelPosition = 5000 /\ sliderPosition = 5000
    /\ durationMs = 5 /\ panelDuration = 5000 /\ sliderDuration = 5000

\* C7: without the mac theme, after any state-changed events the play/pause
\* button shows the pause icon exactly when the most recent state is
\* playing and the play icon otherwise; with the mac theme no event changes
\* the icon.
C7_IconFollowsState ==
    /\ [](lastState # None => connected)
    /\ []((~macTheme /\ lastState # None) =>
            /\ (ppIcon = SP_MediaPause <=> lastState = "playing")
            /\ (ppIcon = SP_MediaPlay <=> lastState # "playing"))
    /\ [][macTheme => ppIcon' = ppIcon]_vars

C7_Witness ==
    ~macTheme /\ lastState = "playing" /\ ppIcon = SP_MediaPause

\* C8: the initialized signal is emitted once, by initialize(), after
\* bind_signal() wired the handlers and after the plugin scan finished, and
\* no later operation emits it again.
C8_InitializedOnce ==
    /\ initializedEmits <= 1
    /\ initializedEmits = 1 => connected /\ pluginsScanned /\ pc = "running"
    /\ pc = "running" => initializedEmits = 1

C8_Witness ==
    /\ initializedEmits = 1 /\ closed /\ scope = "done"
    /\ lastState = "playing" /\ positionMs = 5

C10_ManualReports ==
    /\ scope = "open" =>
          /\ shownMsg \in {label \o "...", label \o "...failed",
                           label \o "...33%", label \o "...50%"}
          /\ doneShown = 0 /\ errorShown = 0
    /\ (scope = "done" /\ failedCalled) =>
          shownMsg = label \o "...done" /\ errorShown = 0
    /\ (scope = "raised" /\ failedCalled) => shownMsg = label \o "...error"
    /\ shownMsg = label \o "...failed" => scope = "open" /\ failedCalled
    /\ errorShown > 0 => scope = "raised" /\ blockError \in Errors

C10_Witness ==
    /\ scope = "done" /\ failedCalled /\ shownMsg = "Login...done"
    /\ blockError = None

(***************************************************************************)
(* Properties of pixmap_from_url                                           *)
(***************************************************************************)
Called == pixTrace # <<>>

\* C4: pixmap_from_url returns None when the fetch returns nothing and when
\* the decoded image is null, and then never calls the callback; otherwise
\* it calls the callback, when one is given, exactly once with the decoded
\* image and then returns that image.  Every call ends by returning.
C4_PixmapOrNone ==
    Called =>
      /\ pixTrace[Len(pixTrace)] = <<"return", pixResult>>
      /\ Count(pixTrace, <<"return", pixResult>>) = 1
      /\ (response = None \/ pixmap = NullPixmap) =>
            /\ pixResult = None
            /\ pixTrace = <<<<"return", None>>>>
      /\ (response # None /\ pixmap # NullPixmap) =>
            /\ pixResult = pixmap
            /\ pixResult # None
            /\ pixCallback # None =>
                  pixTrace = <<<<"callback", pixmap>>, <<"return", pixmap>>>>
            /\ pixCallback = None => pixTrace = <<<<"return", pixmap>>>>

C4_Witness ==
    /\ response = "PNG:b" /\ pixCallback = "set_cover"
    /\ pixResult = "QPixmap(b)" /\ request = <<"http://img/2", "800y800">>
    /\ pixTrace = <<<<"callback", "QPixmap(b)">>, <<"return", "QPixmap(b)">>>>

(***************************************************************************)
(* Properties of scan_fuo_files                                            *)
(***************************************************************************)
Configured == {fuoFiles[i] : i \in 1..Len(fuoFiles)}

\* C5: the recognized files are the configured paths that exist, are not
\* directories and whose base name ends in ".fuo", together with d/f for
\* every configured existing directory d and every direct entry f of d that
\* is a regular file whose name ends in ".fuo"; missing paths, other
\* extensions and files of nested directories are left out and a missing
\* path raises nothing.  ["/a/b.fuo", "/missing", "/dir"], /dir holding
\* c.fuo and d.txt, gives {"/a/b.fuo", "/dir/c.fuo"}.
C5_RecognizedFiles ==
    scanDone =>
      /\ recognized =
           {p \in Configured :
               /\ p \in AllPaths /\ fs[p] \in {"file", "special"}
               /\ endswith(basename(p), ".fuo")}
           \cup
           {q \in AllPaths :
               /\ fs[q] = "file"
               /\ \E d \in Configured, f \in EntryNames :
                     /\ d \in AllPaths /\ fs[d] = "dir"
                     /\ q = d \o "/" \o f
                     /\ endswith(f, ".fuo")}
      /\ (/\ fuoFiles = <<"/a/b.fuo", "/missing", "/dir">>
          /\ fs["/a/b.fuo"] = "file" /\ fs["/dir"] = "dir"
          /\ fs["/dir/c.fuo"] = "file" /\ fs["/dir/d.txt"] = "file")
            => recognized = {"/a/b.fuo", "/dir/c.fuo"}

C5_Witness ==
    /\ scanDone
    /\ fuoFiles = <<"/a/b.fuo", "/missing", "/dir">>
    /\ fs["/a/b.fuo"] = "file" /\ fs["/dir"] = "dir"
    /\ fs["/dir/c.fuo"] = "file" /\ fs["/dir/d.txt"] = "file"
    /\ fs["/dir/sub/e.fuo"] = "file"
    /\ recognized = {"/a/b.fuo", "/dir/c.fuo"}

====
